---- MODULE Spec2Model ----
(***************************************************************************)
(* State-machine model of the red-cogs repository: the Lottery cog         *)
(* (src/lottery/lottery.py) and the ReferralAccumulation cog               *)
(* (src/referralaccumulation/referralaccumulation.py), for one guild.      *)
(*                                                                         *)
(* Every command invocation or event handler is a coroutine: a task with a *)
(* program counter pc[t] and locals loc[t].  A task step runs the code     *)
(* from one suspension point to the next.  Suspension points are the       *)
(* awaits that reach the platform (send, fetch_message, reaction users,    *)
(* guild.invites, asyncio.sleep) and the save that ends a Config write.    *)
(* A plain Config read (await self.config.guild(g).x()) returns the        *)
(* in-memory value without suspending, so a check such as lines 112-117    *)
(* is one step.  `async with ...x() as v` holds the value's lock from      *)
(* entry to exit; only active_lotteries is ever contended.                 *)
(***************************************************************************)
EXTENDS Integers, Sequences, FiniteSets, TLC

\* ---------------------------------------------------------------- bounds
NTasks == 2                 \* coroutines that may be started in one run
MaxTime == 60               \* the clock runs to here, and on while a timer is pending
TickStep == 60              \* seconds the clock advances per Tick
MaxDuration == 1            \* largest `duration` argument (minutes)
MaxRate == 2                \* largest `count` given to referralrate
MaxUses == 2                \* cap on an invite's use-count
MaxPoints == 3              \* no member arrives once this many points are awarded
MaxDay == 2                 \* last day number the calendar reaches
MaxJoins == 2               \* no join is handled once this many were counted in a day
MaxMessages == 2            \* no message is deleted once the channel has held this many

\* ------------------------------------------------------ program constants
SecondsPerMinute == 60          \* timedelta(minutes=duration) -> timestamp
DefaultReferralsPerEntry == 5   \* default_guild["referrals_per_entry"]

Tasks == 1..NTasks
Names == {"X", "Y"}
Humans == {1, 2}
Bots == {3}
Users == Humans \cup Bots
Durations == -1..MaxDuration
Counts == -1..MaxRate
Codes == {"c1", "c2"}
CogNames == {"ReferralAccumulation", "ReferralSystem"}

VARIABLES
    now,                  \* discord.utils.utcnow(), integer seconds
    active_lotteries,     \* Lottery config: name -> lottery_data
    completed_lotteries,  \* Lottery config: name -> lottery_data + draw_results
    referrals_per_entry,  \* Lottery config
    activeLock,           \* holder of the active_lotteries value lock, 0 = free
    pc,                   \* task -> position in its coroutine
    loc,                  \* task -> its arguments and locals
    cogs,                 \* names of the cogs loaded in the bot
    rsReferrals,          \* "ReferralSystem" cog's referrals: invited -> inviter
    joined,               \* user -> <<joined_at>>, or <<>> when not a member
    invite_cache,         \* ReferralAccumulation.invite_cache[guild]: code -> uses
    invites,              \* ReferralAccumulation config: user -> invite code
    referrals,            \* ReferralAccumulation config: invited -> inviter
    points,               \* ReferralAccumulation config: user -> points
    guildInvites,         \* the platform's invite list: sequence of [code, uses]
    track_channel,        \* DailyJoinsTracker config: channel id, 0 for None
    join_count,           \* DailyJoinsTracker config
    last_joiner,          \* DailyJoinsTracker config: user id, 0 for None
    last_join_message,    \* DailyJoinsTracker config: message id, 0 for none
    channel_messages,     \* the tracking channel: id -> [created, count, deleted]
    today,                \* datetime.now(tz).date(), as a day number
    joins_today           \* history: joins handled since the day began or the reset

lotteryVars == <<active_lotteries, completed_lotteries, referrals_per_entry,
                 activeLock>>
ledgerVars == <<invite_cache, invites, referrals, points>>
worldVars == <<cogs, rsReferrals, joined, guildInvites>>
trackerVars == <<track_channel, join_count, last_joiner, last_join_message,
                 channel_messages, today, joins_today>>
vars == <<now, active_lotteries, completed_lotteries, referrals_per_entry,
          activeLock, pc, loc, cogs, rsReferrals, joined,
          invite_cache, invites, referrals, points, guildInvites,
          track_channel, join_count, last_joiner, last_join_message,
          channel_messages, today, joins_today>>

\* ---------------------------------------------------------------- helpers
\* dict.pop(k, None) / del: the mapping without key k
Without(f, k) == [x \in (DOMAIN f) \ {k} |-> f[x]]
\* d[k] = v on a dict
With(f, k, v) == [x \in (DOMAIN f) \cup {k} |-> IF x = k THEN v ELSE f[x]]
\* dict.get(k): <<value>> or <<>> for None
Get(f, k) == IF k \in DOMAIN f THEN <<f[k]>> ELSE <<>>

\* the locals of a coroutine that has not started
NoLoc == [kind |-> "none", name |-> "", duration |-> 0, use_referrals |-> FALSE,
          is_rerun |-> FALSE, start_time |-> 0, end_time |-> 0, wake |-> 0,
          lottery_data |-> <<>>, snap |-> <<>>, reactors |-> <<>>,
          participants |-> {}, referral_cog |-> FALSE, entries_map |-> <<>>,
          draw_results |-> <<>>, member |-> 0, new_invites |-> <<>>,
          old_invites |-> <<>>,
          used_invite |-> <<>>, inviter_id |-> 0, last_msg_id |-> 0,
          count |-> 0, outcome |-> ""]

\* the task moves to position p with locals l
Goto(t, p, l) == /\ pc' = [pc EXCEPT ![t] = p]
                 /\ loc' = [loc EXCEPT ![t] = l]
\* the coroutine returns: only what later steps or checks read is kept
Return(t, o) ==
    Goto(t, "done", [NoLoc EXCEPT !.kind = loc[t].kind, !.name = loc[t].name,
                                  !.is_rerun = loc[t].is_rerun, !.member = loc[t].member,
                                  !.outcome = o])
\* a handler or command of the referral cog ends: its slot is free again
Finish(t) == Goto(t, "idle", NoLoc)
\* tasks are interchangeable: a new coroutine takes the lowest free slot
Free(t) == pc[t] = "idle" /\ \A s \in Tasks : s < t => pc[s] # "idle"

Init ==
    /\ now = 0
    /\ active_lotteries = <<>>
    /\ completed_lotteries = <<>>
    /\ referrals_per_entry = DefaultReferralsPerEntry
    /\ activeLock = 0
    /\ pc = [t \in Tasks |-> "idle"]
    /\ loc = [t \in Tasks |-> NoLoc]
    /\ cogs = {}
    /\ rsReferrals = <<>>
    /\ joined = [u \in Users |-> <<>>]
    /\ invite_cache = <<>>
    /\ invites = <<>>
    /\ referrals = <<>>
    /\ points = <<>>
    /\ guildInvites = <<>>
    /\ track_channel = 0
    /\ join_count = 0
    /\ last_joiner = 0
    /\ last_join_message = 0
    /\ channel_messages = <<>>
    /\ today = 0
    /\ joins_today = 0

\* ------------------------------------------------------------------ clock
\* After MaxTime the clock runs on only as long as a timer is still pending.
Tick ==
    /\ \/ now + TickStep <= MaxTime
       \/ \E t \in Tasks : pc[t] = "sleeping" /\ loc[t].wake > now
    /\ now' = now + TickStep
    /\ UNCHANGED <<lotteryVars, pc, loc, ledgerVars, worldVars, trackerVars>>

\* ------------------------------------------------- Lottery.lottery (create)
\* lines 107-122: validation, uniqueness check, timestamps
\* (variant: the check forgets the completed store)
NameTaken_ActiveOnly(name) == name \in DOMAIN active_lotteries

NameTaken(name) == name \in DOMAIN completed_lotteries \/ name \in DOMAIN active_lotteries

lottery(t, duration, use_referrals, name) ==
    /\ Free(t)
    /\ LET l == [NoLoc EXCEPT !.kind = "create", !.name = name,
                              !.duration = duration, !.use_referrals = use_referrals]
       IN  IF duration <= 0
           THEN Goto(t, "done", [NoLoc EXCEPT !.kind = "create", !.name = name,
                                              !.outcome = "bad_duration"])
           ELSE IF NameTaken(name)
           THEN Goto(t, "done", [NoLoc EXCEPT !.kind = "create", !.name = name,
                                              !.outcome = "name_exists"])
           ELSE Goto(t, "send", [l EXCEPT !.end_time = now + duration * SecondsPerMinute,
                                             !.start_time = now])
    /\ UNCHANGED <<now, lotteryVars, ledgerVars, worldVars, trackerVars>>

\* (variant: only Forbidden ends the command, an HTTPException is passed over)
lottery_send_http(t, res) ==
    /\ pc[t] = "send"
    /\ IF res # "forbidden"
       THEN Goto(t, "store", loc[t])
       ELSE Return(t, "send_failed")
    /\ UNCHANGED <<now, lotteryVars, ledgerVars, worldVars, trackerVars>>

\* lines 151-160: channel.send and add_reaction; res is what the platform answers
lottery_send(t, res) ==
    /\ pc[t] = "send"
    /\ IF res = "ok"
       THEN Goto(t, "store", loc[t])
       ELSE Return(t, "send_failed")
    /\ UNCHANGED <<now, lotteryVars, ledgerVars, worldVars, trackerVars>>

\* lines 162-178: lottery_data is written under the active_lotteries lock, then
\* the confirmation is sent (confirmed = FALSE: ctx.send raises and the command
\* ends before _schedule_draw is called)
lottery_store(t, confirmed) ==
    /\ pc[t] = "store"
    /\ activeLock = 0
    /\ LET lottery_data == [message_id |-> t, use_referrals |-> loc[t].use_referrals,
                            start_time |-> loc[t].start_time, end_time |-> loc[t].end_time,
                            name |-> loc[t].name]
       IN  active_lotteries' = With(active_lotteries, loc[t].name, lottery_data)
    /\ IF confirmed THEN Goto(t, "schedule", loc[t]) ELSE Return(t, "confirm_failed")
    /\ UNCHANGED <<now, completed_lotteries, referrals_per_entry, activeLock,
                   ledgerVars, worldVars, trackerVars>>

\* lines 233-246: _schedule_draw up to asyncio.sleep
schedule_draw(t) ==
    /\ pc[t] = "schedule"
    /\ LET lottery_data == Get(active_lotteries, loc[t].name)
       IN  IF lottery_data = <<>>
           THEN Return(t, "not_scheduled")
           ELSE LET duration_seconds == lottery_data[1].end_time - lottery_data[1].start_time
                IN  Goto(t, "sleeping", [loc[t] EXCEPT !.wake = now + duration_seconds])
    /\ UNCHANGED <<now, lotteryVars, ledgerVars, worldVars, trackerVars>>

\* ------------------------------------------------ Lottery._calculate_entries
\* lines 183-185: self.bot.get_cog("ReferralSystem")
get_referral_cog == "ReferralSystem" \in cogs

\* (variant: a join at start_time itself is not counted)
referral_count_strict(user, start_time, referrals_data, members) ==
    Cardinality({iu \in DOMAIN referrals_data :
                    /\ referrals_data[iu] = user
                    /\ members[iu] # <<>>
                    /\ members[iu][1] > start_time})

\* lines 214-223: the referrals of `user` whose invited member is in the guild
\* and joined at or after start_time
referral_count(user, start_time, referrals_data, members) ==
    Cardinality({iu \in DOMAIN referrals_data :
                    /\ referrals_data[iu] = user
                    /\ members[iu] # <<>>
                    /\ members[iu][1] >= start_time})

\* (variant: the bonus is computed whether or not the referral cog was found)
calculate_entries_nocog(participants, start_time, use_referrals, referral_cog, referrals_data, per_entry, members) ==
    IF ~use_referrals
    THEN [u \in participants |-> 1]
    ELSE [u \in participants |->
            1 + (referral_count(u, start_time, referrals_data, members) \div per_entry)]

\* lines 187-231
calculate_entries(participants, start_time, use_referrals, referral_cog, referrals_data, per_entry, members) ==
    IF ~use_referrals
    THEN [u \in participants |-> 1]
    ELSE IF ~referral_cog
    THEN [u \in participants |-> 1]
    ELSE [u \in participants |->
            1 + (referral_count(u, start_time, referrals_data, members) \div per_entry)]

\* the participants list, in the order reaction.users() yields them (by id)
RECURSIVE Ordered(_)
Ordered(S) == IF S = {} THEN <<>>
              ELSE LET m == CHOOSE x \in S : \A y \in S : x <= y
                   IN  <<m>> \o Ordered(S \ {m})

\* [user] * entry_count
Repeat(x, n) == [i \in 1..n |-> x]

\* (variant: every participant is put in the pool once, whatever the count)
weighted_participants_flat(ps, entries_map) == ps

\* lines 323-327: the weighted pool
RECURSIVE weighted_participants(_, _)
weighted_participants(ps, entries_map) ==
    IF ps = <<>> THEN <<>>
    ELSE LET user == Head(ps)
             entry_count == IF user \in DOMAIN entries_map THEN entries_map[user] ELSE 1
         IN  Repeat(user, entry_count) \o weighted_participants(Tail(ps), entries_map)

\* --------------------------------------------------- Lottery._execute_draw
\* lines 251-269, entered when asyncio.sleep returns (line 249) or from
\* rerun_lottery (line 479); channel_ok: guild.get_channel found the channel
\* (variant: the draw does not wait for asyncio.sleep)
execute_draw_nosleep(t, channel_ok) ==
    /\ pc[t] \in {"sleeping", "rerun"}
    /\ LET source == IF loc[t].is_rerun THEN completed_lotteries ELSE active_lotteries
           lottery_data == Get(source, loc[t].name)
       IN  IF lottery_data = <<>>
           THEN Return(t, "no_data")
           ELSE IF ~channel_ok
           THEN Return(t, "no_channel")
           ELSE Goto(t, "fetch", [loc[t] EXCEPT !.lottery_data = lottery_data])
    /\ UNCHANGED <<now, lotteryVars, ledgerVars, worldVars, trackerVars>>

execute_draw(t, channel_ok) ==
    /\ \/ pc[t] = "sleeping" /\ now >= loc[t].wake
       \/ pc[t] = "rerun"
    /\ LET source == IF loc[t].is_rerun THEN completed_lotteries ELSE active_lotteries
           lottery_data == Get(source, loc[t].name)
       IN  IF lottery_data = <<>>
           THEN Return(t, "no_data")
           ELSE IF ~channel_ok
           THEN Return(t, "no_channel")
           ELSE Goto(t, "fetch", [loc[t] EXCEPT !.lottery_data = lottery_data])
    /\ UNCHANGED <<now, lotteryVars, ledgerVars, worldVars, trackerVars>>

\* (variant: the reactors are taken as they come, bots included)
fetch_message_allusers(t, res, reaction) ==
    /\ pc[t] = "fetch"
    /\ IF res # "ok"
       THEN Return(t, res)
       ELSE LET participants == IF reaction = <<>> THEN {} ELSE reaction[1]
            IN  IF participants = {}
                THEN IF loc[t].is_rerun
                     THEN Return(t, "no_participants")
                     ELSE Goto(t, "empty_edit", loc[t])
                ELSE Goto(t, "entries", [loc[t] EXCEPT !.reactors = reaction,
                                                       !.participants = participants])
    /\ UNCHANGED <<now, lotteryVars, ledgerVars, worldVars, trackerVars>>

\* (variant: a message that cannot be read is taken for one without entries)
fetch_message_unread(t, res, reaction) ==
    /\ pc[t] = "fetch"
    /\ LET participants == IF res # "ok" \/ reaction = <<>> THEN {}
                            ELSE {u \in reaction[1] : u \notin Bots}
       IN  IF participants = {}
           THEN IF loc[t].is_rerun
                THEN Return(t, "no_participants")
                ELSE Goto(t, "move", loc[t])
           ELSE Goto(t, "entries", [loc[t] EXCEPT !.reactors = reaction,
                                                  !.participants = participants])
    /\ UNCHANGED <<now, lotteryVars, ledgerVars, worldVars, trackerVars>>

\* lines 271-313: fetch_message answers res; reaction is <<>> when the message
\* carries no reaction with the lottery emoji, else <<the users who reacted>>
fetch_message(t, res, reaction) ==
    /\ pc[t] = "fetch"
    /\ IF res # "ok"
       THEN Return(t, res)
       ELSE LET participants == IF reaction = <<>> THEN {}
                                ELSE {u \in reaction[1] : u \notin Bots}
            IN  IF participants = {}
                THEN IF loc[t].is_rerun
                     THEN Return(t, "no_participants")
                     ELSE Goto(t, "empty_edit", loc[t])
                ELSE Goto(t, "entries", [loc[t] EXCEPT !.reactors = reaction,
                                                       !.participants = participants])
    /\ UNCHANGED <<now, lotteryVars, ledgerVars, worldVars, trackerVars>>

\* lines 283-294 and 302-313: the "no participants" edit; ok = FALSE: message.edit
\* raises and the handlers of lines 388-393 end the draw
empty_edit(t, ok) ==
    /\ pc[t] = "empty_edit"
    /\ IF ok THEN Goto(t, "move", loc[t]) ELSE Return(t, "edit_error")
    /\ UNCHANGED <<now, lotteryVars, ledgerVars, worldVars, trackerVars>>

\* lines 315-341: entries, weighted pool, random.choice (slot i of the pool)
draw_results_of(winner, participants, pool, entries_map) ==
    [winner_id |-> winner,
     total_participants |-> Cardinality(participants),
     total_entries |-> Len(pool),
     entries_breakdown |-> [u \in participants |-> entries_map[u]],
     draw_timestamp |-> now]

\* (variant: the edges of the participants are used up by the draw)
draw_winner_consume(t, i) ==
    /\ pc[t] = "entries"
    /\ LET d == loc[t].lottery_data[1]
           referral_cog == get_referral_cog
           entries_map == calculate_entries(loc[t].participants, d.start_time,
                              d.use_referrals, referral_cog, rsReferrals,
                              referrals_per_entry, joined)
           pool == weighted_participants(Ordered(loc[t].participants), entries_map)
       IN  /\ i \in 1..Len(pool)
           /\ Goto(t, IF loc[t].is_rerun THEN "announce" ELSE "log",
                   [loc[t] EXCEPT !.referral_cog = referral_cog,
                                  !.entries_map = entries_map,
                                  !.draw_results = <<draw_results_of(pool[i],
                                        loc[t].participants, pool, entries_map)>>])
    /\ referrals' = [iu \in {x \in DOMAIN referrals : referrals[x] \notin loc[t].participants}
                       |-> referrals[iu]]
    /\ UNCHANGED <<now, lotteryVars, invite_cache, invites, points, worldVars, trackerVars>>

draw_winner(t, i) ==
    /\ pc[t] = "entries"
    /\ LET d == loc[t].lottery_data[1]
           referral_cog == get_referral_cog
           entries_map == calculate_entries(loc[t].participants, d.start_time,
                              d.use_referrals, referral_cog, rsReferrals,
                              referrals_per_entry, joined)
           pool == weighted_participants(Ordered(loc[t].participants), entries_map)
       IN  /\ i \in 1..Len(pool)
           /\ Goto(t, IF loc[t].is_rerun THEN "announce" ELSE "log",
                   [loc[t] EXCEPT !.referral_cog = referral_cog,
                                  !.entries_map = entries_map,
                                  !.draw_results = <<draw_results_of(pool[i],
                                        loc[t].participants, pool, entries_map)>>])
    /\ UNCHANGED <<now, lotteryVars, ledgerVars, worldVars, trackerVars>>

\* lines 343-345 and 395-452: _log_results; file_ok = FALSE: writing the log file
\* raises, which line 392 catches, ending the draw (a failure of the log
\* channel's send is caught inside, line 451, and changes nothing)
log_results(t, file_ok) ==
    /\ pc[t] = "log"
    /\ IF file_ok THEN Goto(t, "move", loc[t]) ELSE Return(t, "log_error")
    /\ UNCHANGED <<now, lotteryVars, ledgerVars, worldVars, trackerVars>>

\* ----------------------------------------------- Lottery._move_to_completed
\* lottery_data["draw_results"] = draw_results
WithResults(d, r) ==
    [message_id |-> d.message_id, use_referrals |-> d.use_referrals,
     start_time |-> d.start_time, end_time |-> d.end_time, name |-> d.name,
     draw_results |-> r]

\* lines 456-462 up to the save of completed_lotteries: the lock is taken, the
\* copy of active_lotteries is popped and, with draw results, the record is
\* written to completed_lotteries.  Without them the block ends at once and the
\* popped copy is written back.
move_to_completed(t) ==
    /\ pc[t] = "move"
    /\ activeLock = 0
    /\ LET active == active_lotteries
           lottery_data == Get(active, loc[t].name)
           popped == Without(active, loc[t].name)
           draw_results == loc[t].draw_results
       IN  IF lottery_data # <<>> /\ draw_results # <<>>
           THEN /\ completed_lotteries' = With(completed_lotteries, loc[t].name,
                                               WithResults(lottery_data[1], draw_results[1]))
                /\ activeLock' = t
                /\ Goto(t, "move_exit", [loc[t] EXCEPT !.snap = <<popped>>])
                /\ UNCHANGED active_lotteries
           ELSE /\ active_lotteries' = popped
                /\ IF draw_results = <<>>
                   THEN Return(t, IF lottery_data = <<>> THEN "empty_gone" ELSE "empty")
                   ELSE Goto(t, "announce", loc[t])
                /\ UNCHANGED <<completed_lotteries, activeLock>>
    /\ UNCHANGED <<now, referrals_per_entry, ledgerVars, worldVars, trackerVars>>

\* the exit of the `async with ... as active` block (line 456): the popped copy
\* is written to active_lotteries and the lock released
move_to_completed_exit(t) ==
    /\ pc[t] = "move_exit"
    /\ activeLock = t
    /\ active_lotteries' = loc[t].snap[1]
    /\ activeLock' = 0
    /\ Goto(t, "announce", [loc[t] EXCEPT !.snap = <<>>])
    /\ UNCHANGED <<now, completed_lotteries, referrals_per_entry,
                   ledgerVars, worldVars, trackerVars>>

\* lines 348-386: the announcement (a failure is swallowed by lines 388-393)
announce(t) ==
    /\ pc[t] = "announce"
    /\ Return(t, "winner")
    /\ UNCHANGED <<now, lotteryVars, ledgerVars, worldVars, trackerVars>>

\* ---------------------------------------------------- Lottery.rerun_lottery
\* lines 467-479; sent = FALSE: the "Rerunning" message cannot be sent and the
\* command ends with that error
\* (variant: the command looks the name up in both stores)
rerun_lottery_any(t, lottery_name, sent) ==
    /\ Free(t)
    /\ LET l == [NoLoc EXCEPT !.kind = "rerun", !.name = lottery_name, !.is_rerun = TRUE]
       IN  IF ~NameTaken(lottery_name)
           THEN Goto(t, "done", [l EXCEPT !.outcome = "not_found"])
           ELSE IF ~sent
           THEN Goto(t, "done", [l EXCEPT !.outcome = "send_failed"])
           ELSE Goto(t, "rerun", l)
    /\ UNCHANGED <<now, lotteryVars, ledgerVars, worldVars, trackerVars>>

rerun_lottery(t, lottery_name, sent) ==
    /\ Free(t)
    /\ LET l == [NoLoc EXCEPT !.kind = "rerun", !.name = lottery_name, !.is_rerun = TRUE]
       IN  IF lottery_name \notin DOMAIN completed_lotteries
           THEN Goto(t, "done", [l EXCEPT !.outcome = "not_found"])
           ELSE IF ~sent
           THEN Goto(t, "done", [l EXCEPT !.outcome = "send_failed"])
           ELSE Goto(t, "rerun", l)
    /\ UNCHANGED <<now, lotteryVars, ledgerVars, worldVars, trackerVars>>

\* ------------------------------------------------ Lottery.set_referral_rate
\* (variant: only a negative count is refused)
set_referral_rate_nonneg(count) ==
    /\ IF count < 0
       THEN UNCHANGED referrals_per_entry
       ELSE referrals_per_entry' = count
    /\ UNCHANGED <<now, active_lotteries, completed_lotteries, activeLock,
                   pc, loc, ledgerVars, worldVars, trackerVars>>

\* lines 43-51
set_referral_rate(count) ==
    /\ IF count <= 0
       THEN UNCHANGED referrals_per_entry
       ELSE referrals_per_entry' = count
    /\ UNCHANGED <<now, active_lotteries, completed_lotteries, activeLock,
                   pc, loc, ledgerVars, worldVars, trackerVars>>

\* the slot of a finished coroutine that wrote nothing to the stores is free
\* again (a create that stored its lottery keeps its slot: one run holds at
\* most NTasks of them)
Recycle(t) ==
    /\ pc[t] = "done"
    /\ \/ loc[t].kind # "create"
       \/ loc[t].outcome \in {"bad_duration", "name_exists", "send_failed"}
    /\ Goto(t, "idle", NoLoc)
    /\ UNCHANGED <<now, lotteryVars, ledgerVars, worldVars, trackerVars>>

\* ------------------------------------------------------- process restart
\* (variant: the timers that were pending are set up again at start)
restart_resume ==
    /\ \E t \in Tasks : pc[t] # "idle"
    /\ pc' = [t \in Tasks |-> IF pc[t] = "sleeping" THEN "sleeping" ELSE "idle"]
    /\ loc' = [t \in Tasks |-> IF pc[t] = "sleeping" THEN loc[t] ELSE NoLoc]
    /\ activeLock' = 0
    /\ invite_cache' = <<>>
    /\ UNCHANGED <<now, active_lotteries, completed_lotteries, referrals_per_entry,
                   invites, referrals, points, worldVars, trackerVars>>

\* The process stops and starts again: every coroutine, its timer and the
\* in-memory invite cache are gone, the Config values are as they were saved.
\* Lottery.__init__ (lines 14-27) registers the Config and makes the log
\* directory; nothing reads active_lotteries to set a timer up again.
restart ==
    /\ \E t \in Tasks : pc[t] # "idle"
    /\ pc' = [t \in Tasks |-> "idle"]
    /\ loc' = [t \in Tasks |-> NoLoc]
    /\ activeLock' = 0
    /\ invite_cache' = <<>>
    /\ UNCHANGED <<now, active_lotteries, completed_lotteries, referrals_per_entry,
                   invites, referrals, points, worldVars, trackerVars>>

FetchResults == {"ok", "not_found", "forbidden"}
\* no pool is longer than this: every participant with every referral
PoolBound == Cardinality(Users) * (1 + Cardinality(Users))
ReactionInputs == {<<>>} \cup {<<R>> : R \in (SUBSET Users) \ {{}}}

\* ----------------------------------------------------------------- cogs
\* the bot loads or unloads a cog
load_cog(c) ==
    /\ c \notin cogs
    /\ cogs' = cogs \cup {c}
    /\ UNCHANGED <<now, lotteryVars, pc, loc, ledgerVars, rsReferrals, joined, guildInvites, trackerVars>>

unload_cog(c) ==
    /\ c \in cogs
    /\ cogs' = cogs \ {c}
    /\ UNCHANGED <<now, lotteryVars, pc, loc, ledgerVars, rsReferrals, joined, guildInvites, trackerVars>>

\* A member arrives while a cog named "ReferralSystem" is loaded: that cog
\* records the arrival's inviter in the referrals mapping that
\* _calculate_entries reads (lines 206-207); an arrival it cannot attribute
\* (inviter = 0) records nothing.
referral_system_join(u, inviter) ==
    /\ joined[u] = <<>>
    /\ joined' = [joined EXCEPT ![u] = <<now>>]
    /\ IF "ReferralSystem" \in cogs /\ inviter # 0 /\ u \notin DOMAIN rsReferrals
       THEN rsReferrals' = With(rsReferrals, u, inviter)
       ELSE UNCHANGED rsReferrals
    /\ UNCHANGED <<now, lotteryVars, pc, loc, ledgerVars, cogs, guildInvites, trackerVars>>

\* ------------------------------------------------- the platform's invites
\* {inv.code: inv.uses for inv in invites}
CodeUses(invs) ==
    [c \in {invs[i].code : i \in DOMAIN invs} |->
        (invs[CHOOSE i \in DOMAIN invs : invs[i].code = c]).uses]

CodesOf(invs) == {invs[i].code : i \in DOMAIN invs}

\* the list without the invite of code c
RECURSIVE DropCode(_, _)
DropCode(invs, c) ==
    IF invs = <<>> THEN <<>>
    ELSE IF Head(invs).code = c THEN DropCode(Tail(invs), c)
    ELSE <<Head(invs)>> \o DropCode(Tail(invs), c)

PointsTotal == LET RECURSIVE Sum(_)
                   Sum(S) == IF S = {} THEN 0
                             ELSE LET x == CHOOSE y \in S : TRUE
                                  IN  points[x] + Sum(S \ {x})
               IN  Sum(DOMAIN points)

\* A member joins the guild through invite number via of the platform's list
\* (0: a vanity or untracked path); the on_member_join event starts handler t.
\* line 53: the handler of a bot's arrival returns at once.
member_arrives(t, u, via) ==
    /\ Free(t)
    /\ joined[u] = <<>>
    /\ PointsTotal < MaxPoints
    /\ via \in {0} \cup DOMAIN guildInvites
    /\ via # 0 => guildInvites[via].uses < MaxUses
    /\ joined' = [joined EXCEPT ![u] = <<now>>]
    /\ guildInvites' = IF via = 0 THEN guildInvites
                       ELSE [guildInvites EXCEPT ![via].uses = @ + 1]
    /\ LET l == [NoLoc EXCEPT !.kind = "join", !.member = u]
       IN  IF u \in Bots
           THEN Finish(t)
           ELSE Goto(t, "invites", l)
    /\ UNCHANGED <<now, lotteryVars, ledgerVars, cogs, rsReferrals, trackerVars>>

member_leaves(u) ==
    /\ joined[u] # <<>>
    /\ joined' = [joined EXCEPT ![u] = <<>>]
    /\ UNCHANGED <<now, lotteryVars, pc, loc, ledgerVars, cogs, rsReferrals, guildInvites, trackerVars>>

\* ---------------------------------------- ReferralAccumulation.on_member_join
\* (variant: an invite the cache does not hold is passed over)
UsedInvite_seen(new_invites, old_invites) ==
    LET increased == {i \in DOMAIN new_invites :
                        /\ new_invites[i].code \in DOMAIN old_invites
                        /\ new_invites[i].uses > old_invites[new_invites[i].code]}
    IN  IF increased = {} THEN 0
        ELSE CHOOSE i \in increased : \A j \in increased : i <= j

\* (variant: the loop has no break, the last increased invite is kept)
UsedInvite_last(new_invites, old_invites) ==
    LET increased == {i \in DOMAIN new_invites :
                        new_invites[i].uses >
                          (IF new_invites[i].code \in DOMAIN old_invites
                           THEN old_invites[new_invites[i].code] ELSE 0)}
    IN  IF increased = {} THEN 0
        ELSE CHOOSE i \in increased : \A j \in increased : i >= j

\* lines 65-71: the first invite of the fetched list whose uses exceed the
\* cached uses (0 for a code the cache does not hold); 0 when there is none
UsedInvite(new_invites, old_invites) ==
    LET increased == {i \in DOMAIN new_invites :
                        new_invites[i].uses >
                          (IF new_invites[i].code \in DOMAIN old_invites
                           THEN old_invites[new_invites[i].code] ELSE 0)}
    IN  IF increased = {} THEN 0
        ELSE CHOOSE i \in increased : \A j \in increased : i <= j

\* (variant: a code nobody owns is credited to the first tracked user)
InviterOf_any(code) ==
    LET owners == {u \in DOMAIN invites : invites[u] = code}
        pick == IF owners = {} THEN DOMAIN invites ELSE owners
    IN  IF pick = {} THEN 0 ELSE CHOOSE u \in pick : \A v \in pick : u <= v

\* lines 78-84: the user whose stored invite code is `code`; 0 when there is none
InviterOf(code) ==
    LET owners == {u \in DOMAIN invites : invites[u] = code}
    IN  IF owners = {} THEN 0 ELSE CHOOSE u \in owners : \A v \in owners : u <= v

\* (variant: the cache is replaced only when a used invite was found)
on_member_join_keep(t, res) ==
    /\ pc[t] = "invites"
    /\ IF res # "ok"
       THEN /\ Finish(t)
            /\ UNCHANGED invite_cache
       ELSE LET new_invites == guildInvites
                used == UsedInvite(new_invites, invite_cache)
                inviter_id == IF used = 0 THEN 0 ELSE InviterOf(new_invites[used].code)
            IN  /\ invite_cache' = IF used = 0 THEN invite_cache ELSE CodeUses(new_invites)
                /\ IF used = 0 THEN Finish(t)
                   ELSE IF inviter_id = 0 THEN Finish(t)
                   ELSE Goto(t, "referral", [loc[t] EXCEPT
                                !.old_invites = invite_cache,
                                !.used_invite = <<new_invites[used].code>>,
                                !.inviter_id = inviter_id])
    /\ UNCHANGED <<now, lotteryVars, invites, referrals, points, worldVars, trackerVars>>

\* lines 58-86: guild.invites() answers res; the diff against the cache, the
\* replacement of the cache and the lookup of the invite's owner follow
\* without suspension
on_member_join(t, res) ==
    /\ pc[t] = "invites"
    /\ IF res # "ok"
       THEN /\ Finish(t)
            /\ UNCHANGED invite_cache
       ELSE LET new_invites == guildInvites
                used == UsedInvite(new_invites, invite_cache)
                inviter_id == IF used = 0 THEN 0 ELSE InviterOf(new_invites[used].code)
            IN  /\ invite_cache' = CodeUses(new_invites)
                /\ IF used = 0 THEN Finish(t)
                   ELSE IF inviter_id = 0 THEN Finish(t)
                   ELSE Goto(t, "referral", [loc[t] EXCEPT
                                !.old_invites = invite_cache,
                                !.used_invite = <<new_invites[used].code>>,
                                !.inviter_id = inviter_id])
    /\ UNCHANGED <<now, lotteryVars, invites, referrals, points, worldVars, trackerVars>>

\* lines 87-89: referrals[str(member.id)] = inviter_id
store_referral(t) ==
    /\ pc[t] = "referral"
    /\ referrals' = With(referrals, loc[t].member, loc[t].inviter_id)
    /\ Goto(t, "points", [loc[t] EXCEPT !.old_invites = <<>>])
    /\ UNCHANGED <<now, lotteryVars, invite_cache, invites, points, worldVars, trackerVars>>

\* (variant: the inviter's previous count is not read)
award_point_fresh(t) ==
    /\ pc[t] = "points"
    /\ points' = With(points, loc[t].inviter_id, 1)
    /\ Finish(t)
    /\ UNCHANGED <<now, lotteryVars, invite_cache, invites, referrals, worldVars, trackerVars>>

\* (variant: an inviter who already holds points is not credited again)
award_point_once(t) ==
    /\ pc[t] = "points"
    /\ LET inviter_id == loc[t].inviter_id
       IN  points' = IF inviter_id \in DOMAIN points THEN points
                     ELSE With(points, inviter_id, 1)
    /\ Finish(t)
    /\ UNCHANGED <<now, lotteryVars, invite_cache, invites, referrals, worldVars, trackerVars>>

\* lines 91-93: points[inviter] = points.get(inviter, 0) + 1
award_point(t) ==
    /\ pc[t] = "points"
    /\ LET inviter_id == loc[t].inviter_id
           old == IF inviter_id \in DOMAIN points THEN points[inviter_id] ELSE 0
       IN  points' = With(points, inviter_id, old + 1)
    /\ Finish(t)
    /\ UNCHANGED <<now, lotteryVars, invite_cache, invites, referrals, worldVars, trackerVars>>

\* ------------------------------------ ReferralAccumulation.create_referral
\* lines 106-130: the author's previous invite is deleted and a new one is
\* created on the platform (created = FALSE: create_invite is forbidden)
create_referral(t, author, code, created) ==
    /\ Free(t)
    /\ code \notin CodesOf(guildInvites)
    /\ code \notin {invites[u] : u \in DOMAIN invites}
    /\ LET old_invite_code == Get(invites, author)
           kept == IF old_invite_code = <<>> THEN guildInvites
                   ELSE DropCode(guildInvites, old_invite_code[1])
           l == [NoLoc EXCEPT !.kind = "referral", !.member = author]
       IN  IF created
           THEN /\ guildInvites' = kept \o <<[code |-> code, uses |-> 0]>>
                /\ Goto(t, "store_invite", [l EXCEPT !.used_invite = <<code>>])
           ELSE /\ guildInvites' = kept
                /\ Finish(t)
    /\ UNCHANGED <<now, lotteryVars, ledgerVars, cogs, rsReferrals, joined, trackerVars>>

\* lines 132-134: invites_data[str(ctx.author.id)] = invite.code
store_invite(t) ==
    /\ pc[t] = "store_invite"
    /\ invites' = With(invites, loc[t].member, loc[t].used_invite[1])
    /\ Goto(t, "cache", loc[t])
    /\ UNCHANGED <<now, lotteryVars, invite_cache, referrals, points, worldVars, trackerVars>>

\* lines 23-29 (called at line 137): cache_invites
cache_invites(t, res) ==
    /\ pc[t] = "cache"
    /\ IF res = "ok"
       THEN invite_cache' = CodeUses(guildInvites)
       ELSE UNCHANGED invite_cache
    /\ Finish(t)
    /\ UNCHANGED <<now, lotteryVars, invites, referrals, points, worldVars, trackerVars>>

\* ------------------------------------------ invite notifications and the fetch
\* The gateway delivers its notifications in order, and a handler without an
\* await runs to its end before the next notification is handled: at most one
\* invite notification is outstanding.
NoNotification == \A t \in Tasks : pc[t] \notin {"invite_create", "invite_delete"}

\* An invite is created on the platform (by the referral command or by hand);
\* the gateway's notification starts handler t of on_invite_create, which
\* carries the invite as it was created.
invite_created(t, code) ==
    /\ Free(t)
    /\ NoNotification
    /\ code \notin CodesOf(guildInvites)
    /\ guildInvites' = guildInvites \o <<[code |-> code, uses |-> 0]>>
    /\ Goto(t, "invite_create", [NoLoc EXCEPT !.kind = "invite_create",
                                              !.used_invite = <<code>>])
    /\ UNCHANGED <<now, lotteryVars, ledgerVars, cogs, rsReferrals, joined, trackerVars>>

\* lines 37-42: invite_cache[guild][invite.code] = invite.uses
on_invite_create(t) ==
    /\ pc[t] = "invite_create"
    /\ invite_cache' = With(invite_cache, loc[t].used_invite[1], 0)
    /\ Finish(t)
    /\ UNCHANGED <<now, lotteryVars, invites, referrals, points, worldVars, trackerVars>>

\* An invite is deleted on the platform; the notification starts handler t of
\* on_invite_delete.
invite_deleted(t, code) ==
    /\ Free(t)
    /\ NoNotification
    /\ code \in CodesOf(guildInvites)
    /\ guildInvites' = DropCode(guildInvites, code)
    /\ Goto(t, "invite_delete", [NoLoc EXCEPT !.kind = "invite_delete",
                                              !.used_invite = <<code>>])
    /\ UNCHANGED <<now, lotteryVars, ledgerVars, cogs, rsReferrals, joined, trackerVars>>

\* lines 44-48: invite_cache[guild].pop(invite.code, None)
on_invite_delete(t) ==
    /\ pc[t] = "invite_delete"
    /\ invite_cache' = Without(invite_cache, loc[t].used_invite[1])
    /\ Finish(t)
    /\ UNCHANGED <<now, lotteryVars, invites, referrals, points, worldVars, trackerVars>>

\* line 59, the platform's side: the request of guild.invites() is answered
\* with the list as it is now; the handler resumes later
fetch_invites(t) ==
    /\ pc[t] = "invites"
    /\ Goto(t, "invites_got", [loc[t] EXCEPT !.new_invites = <<guildInvites>>])
    /\ UNCHANGED <<now, lotteryVars, ledgerVars, worldVars, trackerVars>>

\* lines 62-86 for a handler resumed with the list it was answered: the diff
\* against the cache as it is now, the replacement of the cache, the lookup of
\* the owner
on_member_join_late(t) ==
    /\ pc[t] = "invites_got"
    /\ LET new_invites == loc[t].new_invites[1]
           used == UsedInvite(new_invites, invite_cache)
           inviter_id == IF used = 0 THEN 0 ELSE InviterOf(new_invites[used].code)
       IN  /\ invite_cache' = CodeUses(new_invites)
           /\ IF used = 0 THEN Finish(t)
              ELSE IF inviter_id = 0 THEN Finish(t)
              ELSE Goto(t, "referral", [loc[t] EXCEPT
                           !.new_invites = <<>>,
                           !.old_invites = invite_cache,
                           !.used_invite = <<new_invites[used].code>>,
                           !.inviter_id = inviter_id])
    /\ UNCHANGED <<now, lotteryVars, invites, referrals, points, worldVars, trackerVars>>

\* the event loop resumes coroutine t of the ReferralAccumulation cog
ResumeReferral(t) ==
    \/ \E res \in {"ok", "forbidden"} : on_member_join(t, res)
    \/ store_referral(t)
    \/ award_point(t)
    \/ store_invite(t)
    \/ \E res \in {"ok", "forbidden"} : cache_invites(t, res)

\* the event loop resumes coroutine t of the Lottery cog at its suspension point
Resume(t, reactions) ==
    \/ \E res \in {"ok", "forbidden", "http"} : lottery_send(t, res)
    \/ \E c \in BOOLEAN : lottery_store(t, c)
    \/ schedule_draw(t)
    \/ \E c \in BOOLEAN : execute_draw(t, c)
    \/ \E res \in FetchResults, reaction \in reactions : fetch_message(t, res, reaction)
    \/ \E ok \in BOOLEAN : empty_edit(t, ok)
    \/ \E i \in 1..PoolBound : draw_winner(t, i)
    \/ \E ok \in BOOLEAN : log_results(t, ok)
    \/ move_to_completed(t)
    \/ move_to_completed_exit(t)
    \/ announce(t)

\* a command of the Lottery cog is invoked and runs to its first suspension
Command(t, names, flags) ==
    \/ \E d \in Durations, r \in flags, n \in names : lottery(t, d, r, n)
    \/ \E n \in names, sent \in BOOLEAN : rerun_lottery(t, n, sent)
    \/ Recycle(t)

\* the reactions seen by the draws of the lifecycle specification
LifecycleReactions == {<<>>, <<{3}>>, <<{1, 3}>>, <<{1, 2, 3}>>}

Next ==
    \/ Tick
    \/ \E t \in Tasks : Command(t, Names, {FALSE})
    \/ \E t \in Tasks : Resume(t, LifecycleReactions)

Spec == Init /\ [][Next]_vars

\* The event loop resumes every coroutine that can run, and time passes;
\* nothing obliges anyone to invoke a command.
FairSpec == /\ Init /\ [][Next]_vars
            /\ WF_vars(Tick)
            /\ \A t \in Tasks : WF_vars(Resume(t, LifecycleReactions))

\* The referral cog alone: members arrive, leave and create referral invites.
Arrivers == {2, 3}     \* the users who join and leave the guild
Authors == {1, 2}      \* the users who run the referral command

NextReferral ==
    \/ \E t \in Tasks, u \in Arrivers, via \in 0..Cardinality(Codes) : member_arrives(t, u, via)
    \/ \E u \in Arrivers : member_leaves(u)
    \/ \E t \in Tasks, u \in Authors, c \in Codes, ok \in BOOLEAN : create_referral(t, u, c, ok)
    \/ \E t \in Tasks : ResumeReferral(t)

SpecReferral == Init /\ [][NextReferral]_vars

\* One lottery with the referral bonus, drawn while members arrive, the
\* "ReferralSystem" cog comes and goes and the referral rate is configured.
EntriesReactions == {<<{3}>>, <<{1}>>, <<{1, 2, 3}>>}

NextEntries ==
    \/ Tick
    \/ Command(1, {"X"}, BOOLEAN)
    \/ Resume(1, EntriesReactions)
    \/ \E count \in Counts : set_referral_rate(count)
    \/ load_cog("ReferralSystem")
    \/ unload_cog("ReferralSystem")
    \/ \E u \in Users, inviter \in {0, 1} : referral_system_join(u, inviter)

SpecEntries == Init /\ [][NextEntries]_vars

\* A referral lottery drawn while this repository's referral cog is loaded and
\* attributes arrivals: its handlers run only once the cog is loaded.
LedgerLoaded == "ReferralAccumulation" \in cogs
LedgerReactions == {<<{3}>>, <<{1, 3}>>}

NextLedger ==
    \/ Tick
    \/ load_cog("ReferralAccumulation")
    \/ \E t \in Tasks : lottery(t, MaxDuration, TRUE, "X")
    \/ \E t \in Tasks : rerun_lottery(t, "X", TRUE)
    \/ \E t \in Tasks : Recycle(t)
    \/ \E t \in Tasks : Resume(t, LedgerReactions)
    \/ set_referral_rate(1)
    \/ LedgerLoaded /\ \E t \in Tasks, via \in 0..1 : member_arrives(t, 2, via)
    \/ member_leaves(2)
    \/ LedgerLoaded /\ \E t \in Tasks : create_referral(t, 1, "c1", TRUE)
    \/ LedgerLoaded /\ \E t \in Tasks : ResumeReferral(t)

SpecLedger == Init /\ [][NextLedger]_vars

\* Create commands of one name and of different durations, and their draws.
RaceDurations == 1..(MaxDuration + 1)
RaceReactions == {<<{3}>>, <<{1, 3}>>}

NextRace ==
    \/ Tick
    \/ \E t \in Tasks, d \in RaceDurations : lottery(t, d, FALSE, "X")
    \/ \E t \in Tasks : Resume(t, RaceReactions)

SpecRace == Init /\ [][NextRace]_vars

\* The lottery lifecycle of one name with restarts of the process; commands
\* are invoked up to MaxTime.
NextRestart ==
    \/ Tick
    \/ now <= MaxTime /\ \E t \in Tasks : Command(t, {"X"}, {FALSE})
    \/ \E t \in Tasks : Resume(t, RaceReactions)
    \/ restart

SpecRestart == Init /\ [][NextRestart]_vars

\* ------------------------------------------------------ DailyJoinsTracker
\* lines 33-37: jointracker setchannel
setchannel(channel) ==
    /\ track_channel # channel
    /\ track_channel' = channel
    /\ UNCHANGED <<now, lotteryVars, pc, loc, ledgerVars, worldVars, join_count, last_joiner, last_join_message, channel_messages, today, joins_today>>

\* lines 70-75: jointracker reset
tracker_reset ==
    /\ join_count # 0
    /\ join_count' = 0
    /\ last_joiner' = 0
    /\ joins_today' = 0
    /\ UNCHANGED <<now, lotteryVars, pc, loc, ledgerVars, worldVars, track_channel, last_join_message, channel_messages, today>>

\* midnight passes in the configured timezone
new_day ==
    /\ today < MaxDay
    /\ today' = today + 1
    /\ joins_today' = 0
    /\ UNCHANGED <<now, lotteryVars, pc, loc, ledgerVars, worldVars, track_channel, join_count, last_joiner, last_join_message, channel_messages>>

\* a moderator deletes a message of the tracking channel
delete_message(id) ==
    /\ id \in DOMAIN channel_messages
    /\ Len(channel_messages) < MaxMessages
    /\ ~channel_messages[id].deleted
    /\ channel_messages' = [channel_messages EXCEPT ![id].deleted = TRUE]
    /\ UNCHANGED <<now, lotteryVars, pc, loc, ledgerVars, worldVars, track_channel, join_count, last_joiner, last_join_message, today, joins_today>>

\* lines 105-125 and 138-141: the handler of a member's arrival reads the
\* settings, returns when no channel is set, and reads last_join_message
tracker_member_join(t, u) ==
    /\ Free(t)
    /\ joins_today < MaxJoins
    /\ LET l == [NoLoc EXCEPT !.kind = "tracker", !.member = u, !.last_msg_id = last_join_message]
       IN  IF track_channel = 0 THEN Finish(t)
           ELSE IF last_join_message = 0 THEN Goto(t, "jt_count", l)
           ELSE Goto(t, "jt_check", l)
    /\ UNCHANGED <<now, lotteryVars, ledgerVars, worldVars, trackerVars>>

\* the message of id is there to be fetched
Fetched(id) == id \in DOMAIN channel_messages /\ ~channel_messages[id].deleted

\* lines 143-154: the last message is fetched; when it was created before
\* today the counter is reset; NotFound is passed over
check_and_reset_if_needed(t) ==
    /\ pc[t] = "jt_check"
    /\ IF Fetched(loc[t].last_msg_id) /\ channel_messages[loc[t].last_msg_id].created < today
       THEN join_count' = 0 /\ last_joiner' = 0
       ELSE UNCHANGED <<join_count, last_joiner>>
    /\ Goto(t, "jt_count", loc[t])
    /\ UNCHANGED <<now, lotteryVars, ledgerVars, worldVars, track_channel, last_join_message, channel_messages, today, joins_today>>

\* lines 128-131: join_count is read, raised by one and stored
tracker_count(t) ==
    /\ pc[t] = "jt_count"
    /\ join_count' = join_count + 1
    /\ last_joiner' = loc[t].member
    /\ joins_today' = joins_today + 1
    /\ Goto(t, "jt_update", loc[t])
    /\ UNCHANGED <<now, lotteryVars, ledgerVars, worldVars, track_channel, last_join_message, channel_messages, today>>

\* lines 158-169: _update_join_message reads the settings and formats the text
update_join_message(t) ==
    /\ pc[t] = "jt_update"
    /\ Goto(t, "jt_post", [loc[t] EXCEPT !.count = join_count, !.last_msg_id = last_join_message])
    /\ UNCHANGED <<now, lotteryVars, ledgerVars, worldVars, trackerVars>>

\* lines 171-182: the last message is edited, or, when there is none to be
\* fetched, a new one is sent and its id stored
post_join_message(t) ==
    /\ pc[t] = "jt_post"
    /\ IF Fetched(loc[t].last_msg_id)
       THEN /\ channel_messages' = [channel_messages EXCEPT ![loc[t].last_msg_id].count = loc[t].count]
            /\ UNCHANGED last_join_message
       ELSE /\ channel_messages' = Append(channel_messages, [created |-> today, count |-> loc[t].count, deleted |-> FALSE])
            /\ last_join_message' = Len(channel_messages) + 1
    /\ Finish(t)
    /\ UNCHANGED <<now, lotteryVars, ledgerVars, worldVars, track_channel, join_count, last_joiner, today, joins_today>>

\* the event loop resumes handler t of the DailyJoinsTracker cog
ResumeTracker(t) ==
    \/ check_and_reset_if_needed(t)
    \/ tracker_count(t)
    \/ update_join_message(t)
    \/ post_join_message(t)

\* The join tracker alone, for a sequence of joins handled one after another:
\* the channel is set, members join, days pass between two joins, the counter
\* is reset by hand and the tracking message is deleted.
NextTracker ==
    \/ setchannel(1)
    \/ tracker_reset
    \/ (\A s \in Tasks : pc[s] = "idle") /\ new_day
    \/ \E id \in DOMAIN channel_messages : delete_message(id)
    \/ (\A s \in Tasks : pc[s] = "idle") /\ \E t \in Tasks, u \in Humans : tracker_member_join(t, u)
    \/ \E t \in Tasks : ResumeTracker(t)

SpecTracker == Init /\ [][NextTracker]_vars

\* The invite cache alone: invites are created and deleted on the platform,
\* user 2 arrives and leaves, and the answer to guild.invites() reaches the
\* handler some time after the platform gave it.
NextCache ==
    \/ \E t \in Tasks, c \in Codes : invite_created(t, c)
    \/ \E t \in Tasks, c \in Codes : invite_deleted(t, c)
    \/ \E t \in Tasks : on_invite_create(t)
    \/ \E t \in Tasks : on_invite_delete(t)
    \/ NoNotification /\ \E t \in Tasks, via \in 0..Cardinality(Codes) : member_arrives(t, 2, via)
    \/ member_leaves(2)
    \/ \E t \in Tasks : fetch_invites(t)
    \/ \E t \in Tasks : on_member_join_late(t)

SpecCache == Init /\ [][NextCache]_vars

\* The ledger under concurrent arrivals: users 1 and 2 both arrive and leave
\* while user 1 holds the referral invite, so that two handlers can be between
\* their two writes for the same inviter.
PointsArrivers == {1, 2}
PointsAuthors == {1}

NextPoints ==
    \/ \E t \in Tasks, u \in PointsArrivers, via \in 0..Cardinality(Codes) : member_arrives(t, u, via)
    \/ \E u \in PointsArrivers : member_leaves(u)
    \/ \E t \in Tasks, u \in PointsAuthors, c \in Codes : create_referral(t, u, c, TRUE)
    \/ \E t \in Tasks : ResumeReferral(t)

SpecPoints == Init /\ [][NextPoints]_vars

\* ======================================================================
\* Properties of the Lottery cog
\* ======================================================================
InStore(n) == n \in DOMAIN active_lotteries \/ n \in DOMAIN completed_lotteries
Started(t) == pc[t] = "idle" /\ pc'[t] # "idle"

\* C1: a `lottery` command whose name is a key of active_lotteries or of
\* completed_lotteries is rejected: that step leaves both stores unchanged and
\* the command ends there, so no draw is scheduled for it.
C1_DuplicateNameRejected ==
    [][\A t \in Tasks :
         (Started(t) /\ loc'[t].kind = "create" /\ InStore(loc'[t].name))
            => /\ pc'[t] = "done"
               /\ loc'[t].outcome \in {"name_exists", "bad_duration"}
               /\ active_lotteries' = active_lotteries
               /\ completed_lotteries' = completed_lotteries]_vars

\* a create command was rejected for a name held by the completed store, and
\* another for a name held by the active store
C1_Witness ==
    \E t \in Tasks : /\ pc[t] = "done" /\ loc[t].kind = "create"
                      /\ loc[t].outcome = "name_exists"
                      /\ loc[t].name \in DOMAIN completed_lotteries

\* C2 (as claimed): when the scheduled draw has run with at least one non-bot
\* reactor and ends, the name is a key of completed_lotteries with draw_results
\* and not a key of active_lotteries; and while such a draw is under way the
\* name is never absent from both stores.
C2_DrawMovesToCompleted ==
    /\ [][\A t \in Tasks :
            (/\ ~loc[t].is_rerun /\ loc[t].participants # {}
             /\ pc[t] \in {"log", "move", "move_exit", "announce"} /\ pc'[t] = "done")
               => /\ loc[t].name \in DOMAIN completed_lotteries'
                  /\ "draw_results" \in DOMAIN completed_lotteries'[loc[t].name]
                  /\ loc[t].name \notin DOMAIN active_lotteries']_vars
    /\ [](\A t \in Tasks :
            (~loc[t].is_rerun /\ loc[t].participants # {}) => InStore(loc[t].name))

\* C3 (as claimed): the scheduled draw that found no participants leaves the
\* name a key of completed_lotteries, without draw_results, and not a key of
\* active_lotteries.
C3_EmptyDrawCompletes ==
    [][\A t \in Tasks :
         (/\ ~loc[t].is_rerun /\ pc[t] = "move" /\ loc[t].draw_results = <<>>
          /\ pc'[t] = "done")
            => /\ loc[t].name \in DOMAIN completed_lotteries'
               /\ "draw_results" \notin DOMAIN completed_lotteries'[loc[t].name]
               /\ loc[t].name \notin DOMAIN active_lotteries']_vars

\* C4 (as claimed): the automatic draw moves a lottery name from Active to
\* Completed at most once: no timer-fired draw writes completed_lotteries[name]
\* when the name is already a key of completed_lotteries.
C4_AtMostOneTransition ==
    [][\A t \in Tasks :
         (~loc[t].is_rerun /\ pc[t] = "move" /\ pc'[t] = "move_exit")
            => loc[t].name \notin DOMAIN completed_lotteries]_vars

C6_RerunFrame ==
    [][\A t \in Tasks :
         /\ (Started(t) /\ loc'[t].kind = "rerun"
                /\ loc'[t].name \notin DOMAIN completed_lotteries)
               => (pc'[t] = "done" /\ loc'[t].outcome = "not_found")
         /\ ((loc[t].is_rerun \/ loc'[t].is_rerun) /\ pc'[t] # pc[t])
               => /\ active_lotteries' = active_lotteries
                  /\ completed_lotteries' = completed_lotteries]_vars

\* a rerun has drawn and announced a winner, and another was refused for a
\* name that is Active
C6_Witness ==
    /\ \E t \in Tasks : pc[t] = "done" /\ loc[t].is_rerun /\ loc[t].outcome = "winner"
    /\ \E n \in Names : n \in DOMAIN completed_lotteries

\* C7 (as claimed): the entries a rerun draws from equal the entries_breakdown
\* stored with the lottery's draw_results.
C7_RerunSamePool ==
    \A t \in Tasks :
        (pc[t] = "announce" /\ loc[t].is_rerun /\ loc[t].name \in DOMAIN completed_lotteries)
           => /\ "draw_results" \in DOMAIN completed_lotteries[loc[t].name]
              /\ loc[t].draw_results[1].entries_breakdown
                   = completed_lotteries[loc[t].name].draw_results.entries_breakdown

\* ======================================================================
\* Properties of the ReferralAccumulation cog
\* ======================================================================
\* points.get(user, 0)
Count(p, u) == IF u \in DOMAIN p THEN p[u] ELSE 0
\* handler t of an attributed arrival executes its point increment
Awards(t) == pc[t] = "points" /\ pc'[t] # "points"

\* C8 (as claimed): once a referral edge is stored for an invited user it is
\* never replaced by a later attributed arrival of that user, and the points
\* awarded never exceed the number of invited users holding an edge (one
\* increment for each).
C8_FirstWriteWins ==
    /\ [][\A u \in DOMAIN referrals :
            u \in DOMAIN referrals' /\ referrals'[u] = referrals[u]]_vars
    /\ [](PointsTotal <= Cardinality(DOMAIN referrals))

\* C9: no user's point count ever decreases; the step in which the handler of
\* an attributed arrival awards its point raises the count of that handler's
\* inviter by exactly 1 and no other count, the inviter being a tracked user;
\* every other step, the end of an unattributed arrival included, changes no
\* count.
C9_PointsMonotone ==
    [][/\ \A u \in Users : Count(points', u) >= Count(points, u)
       /\ \A t \in Tasks :
             Awards(t) => /\ loc[t].inviter_id \in DOMAIN invites
                          /\ \A u \in Users :
                                Count(points', u) = Count(points, u)
                                   + (IF u = loc[t].inviter_id THEN 1 ELSE 0)
       /\ (\A t \in Tasks : ~Awards(t)) => points' = points]_vars

\* an inviter was awarded twice while another tracked user was awarded nothing
C9_Witness ==
    \E i \in DOMAIN points, j \in DOMAIN invites :
        points[i] >= 2 /\ j # i /\ j \notin DOMAIN points

\* C10: the draw step of a lottery whose use_referrals flag is false, or that
\* runs while get_cog("ReferralSystem") finds no cog, computes exactly 1 entry
\* for every participant, so the pool holds one slot per participant, and the
\* draw goes on to its result.
C10_OneEntryWithoutReferrals ==
    [][\A t \in Tasks :
         (/\ pc[t] = "entries" /\ pc'[t] # "entries"
          /\ (~loc[t].lottery_data[1].use_referrals \/ "ReferralSystem" \notin cogs))
            => /\ pc'[t] \in {"log", "announce"}
               /\ DOMAIN loc'[t].entries_map = loc[t].participants
               /\ \A u \in loc[t].participants : loc'[t].entries_map[u] = 1
               /\ loc'[t].draw_results[1].total_entries
                     = Cardinality(loc[t].participants)]_vars

\* a referral lottery was drawn without the cog while a participant held
\* enough qualifying referrals for a bonus entry
C10_Witness ==
    \E t \in Tasks :
        /\ pc[t] \in {"log", "announce"}
        /\ loc[t].lottery_data[1].use_referrals
        /\ ~loc[t].referral_cog
        /\ "ReferralSystem" \notin cogs
        /\ \E u \in loc[t].participants :
              /\ referral_count(u, loc[t].lottery_data[1].start_time, rsReferrals, joined)
                    >= referrals_per_entry
              /\ loc[t].entries_map[u] = 1

\* the draw step of coroutine t
Draws(t) == pc[t] = "entries" /\ pc'[t] # "entries"

\* C11 (as claimed): the draw step of a lottery created with use_referrals,
\* run while the ReferralAccumulation cog is loaded, gives every participant
\* 1 + floor(r / referrals_per_entry) entries, r being the number of edges of
\* that cog's referrals whose inviter is the participant and whose invited
\* member joined at or after the lottery's start_time.
C11_BonusFromLedger ==
    [][\A t \in Tasks :
         (Draws(t) /\ loc[t].lottery_data[1].use_referrals /\ LedgerLoaded)
            => \A u \in loc[t].participants :
                  loc'[t].entries_map[u]
                    = 1 + (referral_count(u, loc[t].lottery_data[1].start_time,
                                          referrals, joined) \div referrals_per_entry)]_vars

\* the members invited by u, by the "ReferralSystem" cog's edges, who are in
\* the guild
Invited(u) == {iu \in DOMAIN rsReferrals : rsReferrals[iu] = u /\ joined[iu] # <<>>}

\* C12: at the draw step of a referral lottery that finds the referral cog, the
\* bonus of a participant never exceeds what the edges whose invited member
\* joined at or after start_time pay for (an edge with an earlier join
\* contributes nothing), and it is at least what the edges whose invited
\* member joined exactly at start_time pay for (such an edge contributes).
C12_JoinTimeBoundary ==
    [][\A t \in Tasks :
         (/\ Draws(t) /\ loc[t].lottery_data[1].use_referrals
          /\ "ReferralSystem" \in cogs)
            => \A u \in loc[t].participants :
                 LET start == loc[t].lottery_data[1].start_time
                     bonus == loc'[t].entries_map[u] - 1
                     late == {iu \in Invited(u) : joined[iu][1] >= start}
                     exact == {iu \in Invited(u) : joined[iu][1] = start}
                 IN  /\ bonus >= 0
                     /\ bonus * referrals_per_entry <= Cardinality(late)
                     /\ (bonus + 1) * referrals_per_entry > Cardinality(exact)]_vars

\* a draw gave a participant one bonus entry for the invited member who joined
\* exactly at start_time and none for the one who joined before it
C12_Witness ==
    \E t \in Tasks :
        /\ pc[t] \in {"log", "announce"}
        /\ loc[t].referral_cog
        /\ referrals_per_entry = 1
        /\ \E u \in loc[t].participants :
              LET start == loc[t].lottery_data[1].start_time
              IN  /\ loc[t].entries_map[u] = 2
                  /\ \E iu \in Invited(u) : joined[iu][1] = start
                  /\ \E iu \in Invited(u) : joined[iu][1] < start

\* C13: the result of every draw counts the distinct non-bot reactors as
\* total_participants, names one of them as the winner, and for a lottery
\* without referrals has total_entries equal to total_participants.
C13_BotsExcluded ==
    [][\A t \in Tasks :
         Draws(t)
            => LET humans == {u \in loc[t].reactors[1] : u \notin Bots}
                   r == loc'[t].draw_results[1]
               IN  /\ r.total_participants = Cardinality(humans)
                   /\ r.winner_id \in humans
                   /\ ~loc[t].lottery_data[1].use_referrals
                         => r.total_entries = r.total_participants]_vars

\* a draw over two humans and a bot produced its result
C13_Witness ==
    \E t \in Tasks :
        /\ pc[t] \in {"log", "announce"}
        /\ loc[t].reactors # <<>>
        /\ Bots \cap loc[t].reactors[1] # {}
        /\ Cardinality(loc[t].reactors[1] \ Bots) = 2
        /\ loc[t].draw_results[1].total_participants = 2
        /\ loc[t].draw_results[1].total_entries = 2

\* C14: a draw or rerun whose fetch_message answers NotFound or Forbidden ends
\* there: the coroutine returns, active_lotteries and completed_lotteries are
\* unchanged, and it holds no draw result.
C14_UnreadableMessageNoOp ==
    [][\A t \in Tasks, res \in FetchResults \ {"ok"}, reaction \in ReactionInputs :
         fetch_message(t, res, reaction)
            => /\ pc'[t] = "done"
               /\ loc'[t].outcome = res
               /\ loc'[t].draw_results = <<>>
               /\ active_lotteries' = active_lotteries
               /\ completed_lotteries' = completed_lotteries]_vars

\* a timer-fired draw found its message gone and left the lottery Active
C14_Witness ==
    \E t \in Tasks :
        /\ pc[t] = "done" /\ loc[t].kind = "create"
        /\ loc[t].outcome \in {"not_found", "forbidden"}
        /\ loc[t].name \in DOMAIN active_lotteries
        /\ loc[t].name \notin DOMAIN completed_lotteries

\* C15: a `lottery` command with duration <= 0 ends at once with the stores
\* and the configuration unchanged, so nothing is stored or scheduled for it;
\* a referralrate command with count <= 0 changes nothing; and
\* referrals_per_entry is positive in every reachable state.
C15_NonPositiveRejected ==
    /\ [](referrals_per_entry > 0)
    /\ [][\A t \in Tasks, d \in Durations, r \in BOOLEAN, n \in Names :
            (d <= 0 /\ lottery(t, d, r, n))
               => /\ pc'[t] = "done" /\ loc'[t].outcome = "bad_duration"
                  /\ lotteryVars' = lotteryVars]_vars
    /\ [][\A count \in Counts :
            (count <= 0 /\ set_referral_rate(count)) => lotteryVars' = lotteryVars]_vars

\* a create with a non-positive duration was refused after the rate had been
\* configured, and nothing was stored for it
C15_Witness ==
    \E t \in Tasks :
        /\ pc[t] = "done" /\ loc[t].outcome = "bad_duration"
        /\ ~InStore(loc[t].name)
        /\ referrals_per_entry = 1

\* C16: when channel.send or add_reaction answers Forbidden or HTTPException
\* during a create, the command ends there with the failure as its outcome:
\* the stores and the configuration are unchanged, so no record is added and
\* no draw is scheduled.
C16_SendFailureNoRecord ==
    [][\A t \in Tasks, res \in {"forbidden", "http"} :
         lottery_send(t, res)
            => /\ pc'[t] = "done" /\ loc'[t].outcome = "send_failed"
               /\ lotteryVars' = lotteryVars]_vars

\* a create ended by a failed send, and its name is in neither store
C16_Witness ==
    \E t \in Tasks :
        /\ pc[t] = "done" /\ loc[t].kind = "create"
        /\ loc[t].outcome = "send_failed"
        /\ ~InStore(loc[t].name)

\* coroutine t of the Lottery cog takes a step
LotteryStep(t) ==
    /\ pc'[t] # pc[t]
    /\ loc[t].kind \in {"create", "rerun"} \/ loc'[t].kind \in {"create", "rerun"}

\* C17: no step of a create, of a scheduled draw or of a rerun, and no step
\* that changes the Lottery configuration, changes the referral cog's invites,
\* referrals or points.
C17_LedgerUntouched ==
    [][(\/ \E t \in Tasks : LotteryStep(t)
        \/ lotteryVars' # lotteryVars)
          => /\ invites' = invites
             /\ referrals' = referrals
             /\ points' = points]_vars

\* a referral lottery was drawn and completed with an edge and a point in the
\* ledger
C17_Witness ==
    /\ \E t \in Tasks : pc[t] = "done" /\ loc[t].kind = "create" /\ loc[t].outcome = "winner"
    /\ "X" \in DOMAIN completed_lotteries
    /\ referrals # <<>> /\ points # <<>> /\ invites # <<>>
    /\ referrals_per_entry = 1

\* the places of the platform's invite list whose uses exceed the cached uses
Increased == {i \in DOMAIN guildInvites :
                guildInvites[i].uses > Count(invite_cache, guildInvites[i].code)}

\* C18: the handler step that receives the invite list replaces the cache by
\* the fetched counts (every increase is absorbed) and writes no edge and no
\* point itself; it goes on to attribute only when some invite increased and
\* the first increased invite of the list is a tracked one, holding exactly
\* that invite and its owner; and the step that stores the referral writes the
\* one edge of the arriving member and nothing else.
C18_FirstIncreasedInvite ==
    /\ [][\A t \in Tasks :
            on_member_join(t, "ok")
               => /\ invite_cache' = CodeUses(guildInvites)
                  /\ referrals' = referrals /\ points' = points
                  /\ IF Increased = {} THEN pc'[t] = "idle"
                     ELSE LET first == CHOOSE i \in Increased : \A j \in Increased : i <= j
                              code == guildInvites[first].code
                          IN  IF \E u \in DOMAIN invites : invites[u] = code
                              THEN /\ pc'[t] = "referral"
                                   /\ loc'[t].used_invite = <<code>>
                                   /\ invites[loc'[t].inviter_id] = code
                              ELSE pc'[t] = "idle"]_vars
    /\ [][\A t \in Tasks :
            (pc[t] = "referral" /\ pc'[t] # "referral")
               => /\ DOMAIN referrals' = DOMAIN referrals \cup {loc[t].member}
                  /\ referrals'[loc[t].member] = loc[t].inviter_id
                  /\ \A u \in DOMAIN referrals \ {loc[t].member} :
                        referrals'[u] = referrals[u]]_vars

\* a handler found two invites above their cached counts and holds the one
\* listed first; the cache has absorbed both increases
C18_Witness ==
    \E t \in Tasks :
        /\ pc[t] = "referral"
        /\ Len(guildInvites) = 2
        /\ invite_cache = CodeUses(guildInvites)
        /\ \A i \in DOMAIN guildInvites :
              guildInvites[i].uses > Count(loc[t].old_invites, guildInvites[i].code)
        /\ loc[t].used_invite = <<guildInvites[1].code>>
        /\ \E u \in DOMAIN invites : invites[u] = guildInvites[2].code

\* C19: when the fetched list holds, before any other increased invite, a code
\* the cache does not hold with uses >= 1, the handler declares that invite
\* used: if the code is a tracked one the handler goes on to attribute the
\* arrival to it and to its owner.
C19_UnseenCodeCountsFromZero ==
    [][\A t \in Tasks, i \in DOMAIN guildInvites :
         (/\ on_member_join(t, "ok")
          /\ guildInvites[i].code \notin DOMAIN invite_cache
          /\ guildInvites[i].uses >= 1
          /\ \A j \in 1..(i - 1) :
                /\ guildInvites[j].code \in DOMAIN invite_cache
                /\ guildInvites[j].uses <= invite_cache[guildInvites[j].code]
          /\ \E u \in DOMAIN invites : invites[u] = guildInvites[i].code)
            => /\ pc'[t] = "referral"
               /\ loc'[t].used_invite = <<guildInvites[i].code>>
               /\ invites[loc'[t].inviter_id] = guildInvites[i].code]_vars

\* a handler attributes an arrival to a code its cache did not hold, listed
\* after an invite the cache did hold
C19_Witness ==
    \E t \in Tasks :
        /\ pc[t] = "referral"
        /\ loc[t].used_invite[1] \notin DOMAIN loc[t].old_invites
        /\ loc[t].old_invites # <<>>
        /\ Len(guildInvites) = 2
        /\ loc[t].used_invite = <<guildInvites[2].code>>
        /\ guildInvites[1].code \in DOMAIN loc[t].old_invites

\* C20 (as claimed): in every reachable state no lottery name is a key of both
\* active_lotteries and completed_lotteries.
C20_StoresDisjoint ==
    \A n \in Names :
        ~(n \in DOMAIN active_lotteries /\ n \in DOMAIN completed_lotteries)

\* the timer-fired draw of coroutine t found participants, drew and has ended
DrawnWithParticipants(t) ==
    /\ pc[t] = "done" /\ loc[t].kind = "create"
    /\ loc[t].outcome \in {"winner", "log_error"}

\* C21 (as claimed): when the draws of two lotteries of different names have
\* both found participants and ended, each name is a key of completed_lotteries
\* with draw_results and neither is a key of active_lotteries; and a lottery of
\* another name created meanwhile, whose timer is pending, is a key of
\* active_lotteries.
C21_NoLostUpdate ==
    \A t1, t2 \in Tasks :
        (t1 # t2 /\ loc[t1].name # loc[t2].name /\ DrawnWithParticipants(t1))
           => /\ DrawnWithParticipants(t2)
                 => \A n \in {loc[t1].name, loc[t2].name} :
                       /\ n \in DOMAIN completed_lotteries
                       /\ "draw_results" \in DOMAIN completed_lotteries[n]
                       /\ n \notin DOMAIN active_lotteries
              /\ pc[t2] \in {"schedule", "sleeping"}
                 => loc[t2].name \in DOMAIN active_lotteries

\* sum(d.values())
RECURSIVE SumValues(_)
SumValues(f) ==
    IF DOMAIN f = {} THEN 0
    ELSE LET k == CHOOSE x \in DOMAIN f : TRUE
         IN  f[k] + SumValues([x \in (DOMAIN f) \ {k} |-> f[x]])

\* C22: at every draw step the pool built from the entries holds each
\* participant exactly as many times as its entry count and nobody else; the
\* recorded entries_breakdown has one key for each participant, every value is
\* at least 1, total_entries is the sum of the values, and the winner is a
\* participant.
C22_PoolMatchesEntries ==
    [][\A t \in Tasks :
         Draws(t)
            => LET r == loc'[t].draw_results[1]
                   em == loc'[t].entries_map
                   pool == weighted_participants(Ordered(loc[t].participants), em)
               IN  /\ \A u \in loc[t].participants :
                         Cardinality({i \in DOMAIN pool : pool[i] = u}) = em[u]
                   /\ \A i \in DOMAIN pool : pool[i] \in loc[t].participants
                   /\ Len(pool) = r.total_entries
                   /\ DOMAIN r.entries_breakdown = loc[t].participants
                   /\ r.entries_breakdown = em
                   /\ \A u \in loc[t].participants : r.entries_breakdown[u] >= 1
                   /\ r.total_entries = SumValues(r.entries_breakdown)
                   /\ r.winner_id \in loc[t].participants]_vars

\* a draw over two participants, one of them holding a bonus entry
C22_Witness ==
    \E t \in Tasks :
        /\ pc[t] \in {"log", "announce"}
        /\ loc[t].draw_results[1].total_participants = 2
        /\ loc[t].draw_results[1].total_entries = 3
        /\ \E u \in loc[t].participants : loc[t].draw_results[1].entries_breakdown[u] = 2

\* C23 (as claimed): a timer-fired draw never starts, and a lottery never
\* leaves active_lotteries, before the end_time stored with the lottery.
C23_NoDrawBeforeEnd ==
    /\ [][\A t \in Tasks :
            (/\ pc[t] = "sleeping" /\ pc'[t] # "sleeping"
             /\ loc[t].name \in DOMAIN active_lotteries)
               => now >= active_lotteries[loc[t].name].end_time]_vars
    /\ [][\A n \in Names :
            (n \in DOMAIN active_lotteries /\ n \notin DOMAIN active_lotteries')
               => now >= active_lotteries[n].end_time]_vars

\* C24 (as claimed): a record of completed_lotteries, once written, is never
\* changed, replaced or removed.
C24_CompletedImmutable ==
    [][\A n \in DOMAIN completed_lotteries :
         /\ n \in DOMAIN completed_lotteries'
         /\ completed_lotteries'[n] = completed_lotteries[n]]_vars

\* C25 (as claimed): a draw whose logging failed has still moved its lottery to
\* completed_lotteries with its draw_results.
C25_LoggingNeverBlocks ==
    \A t \in Tasks :
        (pc[t] = "done" /\ loc[t].outcome = "log_error")
           => /\ loc[t].name \in DOMAIN completed_lotteries
              /\ "draw_results" \in DOMAIN completed_lotteries[loc[t].name]

\* the arrival of user u is handled in one step: the handler has completed
Arrived(t, u) ==
    \E via \in 0..Cardinality(Codes) : member_arrives(t, u, via) /\ pc'[t] = "idle"

\* C26 (as claimed): whenever the handler of an arrival, of a human or of a
\* bot, receives the invite list or completes without asking for it, the cache
\* is the code -> uses map of the guild's invite list.
C26_CacheAlwaysRefreshed ==
    [][\A t \in Tasks :
         /\ on_member_join(t, "ok") => invite_cache' = CodeUses(guildInvites)
         /\ \A u \in Users : Arrived(t, u) => invite_cache' = CodeUses(guildInvites')]_vars

\* C26 (amended): the handler of a human's arrival replaces the cache by the
\* code -> uses map of the list it fetched, whether or not an invite was found
\* used; the handler of a bot's arrival ends at once and leaves the cache as
\* it was, as does a handler whose fetch is refused.
C26_HumanArrivalRefreshes ==
    [][\A t \in Tasks :
         /\ on_member_join(t, "ok")
               => loc[t].member \in Humans /\ invite_cache' = CodeUses(guildInvites)
         /\ on_member_join(t, "forbidden") => invite_cache' = invite_cache
         /\ \A u \in Bots :
               (joined[u] = <<>> /\ joined'[u] # <<>>)
                  => pc' = pc /\ invite_cache' = invite_cache
         /\ \A u \in Humans :
               (joined[u] = <<>> /\ joined'[u] # <<>>)
                  => /\ invite_cache' = invite_cache
                     /\ \E s \in Tasks : /\ pc[s] = "idle" /\ pc'[s] = "invites"
                                          /\ loc'[s].member = u]_vars

\* a human's handler has replaced a cache that was behind, and nothing was
\* attributed: the used invite is not a tracked one yet
C26_Witness ==
    /\ joined[2] # <<>>
    /\ guildInvites # <<>>
    /\ invite_cache = CodeUses(guildInvites)
    /\ \E i \in DOMAIN guildInvites : guildInvites[i].uses >= 1
    /\ invites = <<>> /\ referrals = <<>>
    /\ \A t \in Tasks : pc[t] \in {"idle", "store_invite"}

\* C27: a handler whose fetch is refused, or that finds no invite above its
\* cached count, or whose used invite is owned by no tracked user, ends in
\* that step without writing an edge or a point; a refused fetch leaves the
\* cache too.
C27_SilentNoAttribution ==
    [][\A t \in Tasks :
         /\ on_member_join(t, "forbidden")
               => /\ pc'[t] = "idle"
                  /\ ledgerVars' = ledgerVars
         /\ (/\ on_member_join(t, "ok")
             /\ \/ Increased = {}
                \/ LET first == CHOOSE i \in Increased : \A j \in Increased : i <= j
                   IN  \A u \in DOMAIN invites : invites[u] # guildInvites[first].code)
               => /\ pc'[t] = "idle"
                  /\ referrals' = referrals /\ points' = points /\ invites' = invites]_vars

\* an invite that is not tracked yet was used by user 2, whose handler absorbed
\* the use into the cache and attributed nothing
C27_Witness ==
    /\ joined[2] # <<>> /\ joined[3] = <<>>
    /\ Len(guildInvites) = 1
    /\ guildInvites[1].uses = 1
    /\ invite_cache = CodeUses(guildInvites)
    /\ invites = <<>> /\ referrals = <<>> /\ points = <<>>
    /\ \E t \in Tasks : pc[t] = "store_invite" /\ \A s \in Tasks \ {t} : pc[s] = "idle"

\* coroutine t is a create command on its way to draw the lottery named n
Holds(t, n) == loc[t].name = n /\ loc[t].kind = "create" /\ pc[t] \notin {"idle", "done"}
\* lottery n is Active and no coroutine is left to draw it
Orphan(n) == n \in DOMAIN active_lotteries /\ \A t \in Tasks : ~Holds(t, n)

\* C28: a restart leaves every Active lottery without a coroutine to draw it;
\* from then on no step gives it one (a create of its name is refused, no
\* timer is set up), and it stays in active_lotteries with its record
\* unchanged.
C28_NoResumeAfterRestart ==
    /\ [][restart => \A n \in DOMAIN active_lotteries : Orphan(n)']_vars
    /\ [][\A n \in Names :
            Orphan(n) => /\ Orphan(n)'
                         /\ active_lotteries'[n] = active_lotteries[n]]_vars

\* after a restart the lottery is still Active past its end_time, with no
\* coroutine left, and a create of its name has been refused
C28_Witness ==
    /\ "X" \in DOMAIN active_lotteries /\ "X" \notin DOMAIN completed_lotteries
    /\ now >= active_lotteries["X"].end_time
    /\ \A t \in Tasks : pc[t] = "done" /\ loc[t].kind = "create"
                          /\ loc[t].outcome = "name_exists"

\* C29 (as claimed): whenever no handler is running the cache is the
\* code -> uses map of the guild's invites, and no step lowers the cached
\* count of an invite that is live before and after it.
C29_CacheAtomic ==
    /\ []((\A t \in Tasks : pc[t] = "idle") => invite_cache = CodeUses(guildInvites))
    /\ [][\A c \in DOMAIN invite_cache \cap CodesOf(guildInvites) :
            c \in CodesOf(guildInvites')
               => c \in DOMAIN invite_cache' /\ invite_cache'[c] >= invite_cache[c]]_vars

\* the referral edges naming i as inviter
Edges(i) == Cardinality({u \in DOMAIN referrals : referrals[u] = i})
\* the handlers that have stored an edge for inviter i and not yet its point
Pending(i) == Cardinality({t \in Tasks : pc[t] = "points" /\ loc[t].inviter_id = i})
\* every point of the ledger, awarded or pending, has its edge
Balanced == \A i \in Users : Count(points, i) + Pending(i) = Edges(i)
\* handler t stores an edge for an invited user who already has one
Reattributes(t) == pc[t] = "referral" /\ pc'[t] = "points" /\ loc[t].member \in DOMAIN referrals

\* C30: while no handler is between its two writes, every user's points are
\* at least the edges naming that user as inviter; counting the pending
\* awards, this holds in every state, so no increment of concurrent handlers
\* is lost; and points plus pending awards equal the edges for as long as no
\* handler stores an edge for an invited user who already has one.
C30_LedgerConsistent ==
    /\ []((\A t \in Tasks : pc[t] # "points") => \A i \in Users : Count(points, i) >= Edges(i))
    /\ [](\A i \in Users : Count(points, i) + Pending(i) >= Edges(i))
    /\ [][(Balanced /\ \A t \in Tasks : ~Reattributes(t)) => Balanced']_vars

\* two handlers of different members are between their two writes for the
\* same inviter, whose points and edges were equal so far
C30_Witness ==
    /\ \E i \in Users : Pending(i) = 2
    /\ loc[1].member # loc[2].member
    /\ Balanced

\* the count shown by the tracking message
Displayed == channel_messages[last_join_message].count

\* C31 (as claimed): whenever no handler is running in a guild with a
\* tracking channel and at least one join was handled since the day began or
\* the counter was reset by hand, the stored join_count is the number of those
\* joins, and so is the count shown by the tracking message.
C31_CountIsJoinsToday ==
    (/\ \A t \in Tasks : pc[t] = "idle"
     /\ track_channel # 0
     /\ joins_today > 0)
       => /\ join_count = joins_today
          /\ Fetched(last_join_message) => Displayed = joins_today
====
